---------------------------- MODULE Spec2Model ----------------------------
(***************************************************************************)
(* Model of main.py: the XF / text chord scan of a MIDI message stream     *)
(* (_parse_chords_from_midi), the lead-sheet merge (create_lead_sheet) and *)
(* the command-line driver (main, check_chords_in_file).                   *)
(*                                                                         *)
(* Bytes are integers 0..255.  A message is a record                       *)
(*   [type, time, data, text, name]                                        *)
(* as mido presents it: `data' for sequencer_specific, `text' for          *)
(* text/lyrics/marker, `name' for track_name; the unused fields are empty. *)
(* Offsets are exact rationals <<num, den>> in lowest terms, den > 0.      *)
(***************************************************************************)
EXTENDS Integers, Sequences, FiniteSets, TLC

VARIABLES
    pc,                   \* position of the program
    args,                 \* which command-line arguments were given
    exit_code,            \* process exit status once pc = "exited"
    exit_reason,          \* which exit statement ended the process
    raised,               \* exception unwinding towards main: none/SystemExit/Exception
    exit_arg,             \* argument of the pending sys.exit
    caught,               \* main's "except Exception" handler ran
    phases,               \* phases of create_lead_sheet entered so far, in order
    melody_parsed,        \* the melody file was parsed (lines 141-144 succeeded)
    ticks_per_quarter,    \* the ticks_per_quarter argument of _parse_chords_from_midi
    melody_part,          \* index of the selected part in parts, 0 for None
    chord_open_failed,    \* mido.MidiFile raised on the chord file (line 56)
    mf_ticks_per_beat,    \* the chord file's own ticks_per_beat
    warned,               \* the TPQ mismatch warning was printed (line 55)
    absolute_time_ticks,  \* running tick counter of the scan
    chords,               \* the chord list being built
    scanned,              \* messages consumed so far with what the scan did to each
    extracted_chords,     \* return value of _parse_chords_from_midi
    output_part,          \* elements inserted into output_part, in insertion order
    melody_in,            \* what the melody part exposed to the merge (ts, ks, notes)
    dir_created,          \* output_xml_path.parent.mkdir ran successfully
    written               \* lead_sheet.write produced the output file

vars == <<pc, args, exit_code, exit_reason, raised, exit_arg, caught, phases,
          melody_parsed, ticks_per_quarter, melody_part, chord_open_failed,
          mf_ticks_per_beat, warned, absolute_time_ticks, chords, scanned,
          extracted_chords, output_part, melody_in, dir_created, written>>

---------------------------------------------------------------------------
(* Bounds of the model *)

\* longest message stream scanned under Spec
MaxMsgs == 3
\* longest message stream scanned under SpecTicks
MaxTickMsgs == 4
\* most 0x7F separators inserted into a table key to build a payload
MaxSep == 2
\* longest payload drawn from PayloadBytes
MaxPayload == 3

---------------------------------------------------------------------------
(* Constants of _parse_chords_from_midi *)

XF_META_HEADER == <<67, 123>>      \* (0x43, 0x7B)
XF_CHORD_ID == 1                   \* 0x01
XF_LYRIC_ID == 32                  \* 0x20
XF_RUBY_ID == 33                   \* 0x21
SEPARATOR == 127                   \* 0x7F

\* None / no chord; the empty string is falsy like None at "if current_chord_text"
None == ""

\* the dict literal, entry by entry in source order
xf_chord_map ==
    << <<(<<49, 34>>), "C#m7">>,      <<(<<38, 2>>), "Fm7">>,
       <<(<<39, 19>>), "F#add9">>,    <<(<<53, 10>>), "G#7#9">>,
       <<(<<49, 8>>), "C#sus4">>,     <<(<<53, 19>>), "G#add9">>,
       <<(<<35, 19>>), "D#add9">>,    <<(<<35, 0>>), "D#">>,
       <<(<<39, 0>>), "F#">>,         <<(<<35, 19, 39>>), "D#add9/F#">>,
       <<(<<35, 0, 53>>), "D#/G#">>,  <<(<<39, 10>>), "F#7#9">>,
       <<(<<38, 0>>), "Fm">>,         <<(<<53, 19, 55>>), "G#add9/A#">>,
       <<(<<49, 10>>), "C#7#9">>,     <<(<<39, 10, 34>>), "F#7#9/C#">>,
       <<(<<53, 0>>), "G#">>,         <<(<<53, 0, 55>>), "G#/A#">>,
       <<(<<39, 8>>), "F#sus4">>,     <<(<<53, 2>>), "G#m7">>,
       <<(<<54, 19>>), "Aadd9">>,     <<(<<68, 10>>), "E7#9">>,
       <<(<<55, 8>>), "A#sus4">>,     <<(<<50, 19, 49>>), "Dm7/C#">>,
       <<(<<50, 0>>), "D">>,          <<(<<69, 0>>), "F">>,
       <<(<<54, 0>>), "A">>,          <<(<<39, 2>>), "F#m7">>,
       <<(<<52, 0, 35>>), "Fm/D#">>,  <<(<<52, 0>>), "Fm">>,
       <<(<<49, 0>>), "C#">>,         <<(<<54, 19, 65>>), "Aadd9/C#">>,
       <<(<<52, 19, 35>>), "Fmadd9/D#">>,
       <<(<<35, 19, 34>>), "D#add9/C#">>, <<(<<35, 0, 39>>), "D#/F#">>,
       <<(<<68, 19>>), "Eadd9">>,     <<(<<50, 8>>), "Dsus4">>,
       <<(<<49, 19>>), "C#add9">>,    <<(<<54, 10>>), "A7#9">>,
       <<(<<50, 10>>), "D7#9">>,
       <<(<<82, 0, 35>>), "Fm/D#">>,  <<(<<82, 19, 35>>), "Fmadd9/D#">> >>

\* the keys of the dict
xf_chord_keys == { xf_chord_map[i][1] : i \in DOMAIN xf_chord_map }

\* a lookup that takes the first entry whose key is a prefix of the bytes
xf_chord_map_get_prefix(chord_bytes) ==
    LET hits == { i \in DOMAIN xf_chord_map :
                   /\ Len(xf_chord_map[i][1]) <= Len(chord_bytes)
                   /\ SubSeq(chord_bytes, 1, Len(xf_chord_map[i][1])) = xf_chord_map[i][1] }
    IN  IF hits = {} THEN None
        ELSE xf_chord_map[CHOOSE i \in hits : \A j \in hits : i <= j][2]

\* a lookup with a fallback name for keys that are not in the dict
xf_chord_map_get_default(chord_bytes) ==
    LET hits == { i \in DOMAIN xf_chord_map : xf_chord_map[i][1] = chord_bytes }
    IN  IF hits = {} THEN "C"
        ELSE xf_chord_map[CHOOSE i \in hits : \A j \in hits : i >= j][2]

\* xf_chord_map.get(chord_bytes): whole-tuple equality, the last entry of a
\* repeated key wins as in a dict literal, None when absent
xf_chord_map_get(chord_bytes) ==
    LET hits == { i \in DOMAIN xf_chord_map : xf_chord_map[i][1] = chord_bytes }
    IN  IF hits = {} THEN None
        ELSE xf_chord_map[CHOOSE i \in hits : \A j \in hits : i >= j][2]

\* tuple(b for b in payload if b != 0x7F)
StripSeparators(payload) == SelectSeq(payload, LAMBDA b : b # SEPARATOR)

---------------------------------------------------------------------------
(* Messages *)

Msg(type, time, data, text, name) ==
    [type |-> type, time |-> time, data |-> data, text |-> text, name |-> name]

\* mido: the meta message types of the model; every other type is a channel message
META_TYPES == {"sequencer_specific", "text", "lyrics", "marker", "track_name"}

\* msg.is_meta
is_meta(msg) == msg.type \in META_TYPES

\* line 68: a sequencer_specific message with the XF header and an event id
IsXFMetaEvent(msg) ==
    /\ msg.type = "sequencer_specific"
    /\ Len(msg.data) > 2
    /\ SubSeq(msg.data, 1, 2) = XF_META_HEADER

\* a text test that also lets track_name messages through
IsTextMetaWithTrackName(msg) ==
    is_meta(msg) /\ msg.type \in {"text", "lyrics", "marker", "track_name"}

\* line 92: the elif guard of the text recognizer
IsTextMeta(msg) ==
    is_meta(msg) /\ msg.type \in {"text", "lyrics", "marker"}

\* which recognizer the if / elif of lines 68 and 92 hands the message to
Route(msg) ==
    IF IsXFMetaEvent(msg) THEN "xf"
    ELSE IF IsTextMeta(msg) THEN "text"
    ELSE "none"

\* line 70
event_id(msg) == msg.data[3]

\* lines 78-80: the payload after header and id, with the 0x7F bytes removed
chord_bytes(msg) == StripSeparators(SubSeq(msg.data, 4, Len(msg.data)))

\* lines 82-83: the early "continue" on an empty key
EmptyKeyContinue(msg) ==
    IsXFMetaEvent(msg) /\ event_id(msg) = XF_CHORD_ID /\ chord_bytes(msg) = <<>>

\* lines 76-86: the chord name the XF branch resolves
XFChordText(msg) ==
    IF event_id(msg) = XF_CHORD_ID
    THEN IF chord_bytes(msg) = <<>> THEN None ELSE xf_chord_map_get(chord_bytes(msg))
    ELSE None

\* str.strip() on the texts of the model
strip(text) ==
    CASE text = " C " -> "C"
      [] text = "   " -> ""
      [] OTHER        -> text

\* group 1 of re.search(...) of line 108 on the stripped texts of the model,
\* as Python's re returns it; None when there is no match
re_search_group1(text) ==
    CASE text = "Gm7 riff" -> "Gm7"
      [] text = "C"        -> "C"
      [] OTHER             -> None

\* lines 93-119: the chord name the text branch resolves; csOk says whether
\* harmony.ChordSymbol accepts the candidate
TextChordText(msg, csOk) ==
    LET text == strip(IF msg.type = "track_name" THEN msg.name ELSE msg.text)
    IN  IF text # ""
        THEN LET parsed_text == re_search_group1(text)
             IN  IF parsed_text # None /\ csOk THEN parsed_text ELSE None
        ELSE None

\* lines 65-119: current_chord_text after the two recognizers
current_chord_text(msg, csOk) ==
    CASE Route(msg) = "xf"   -> XFChordText(msg)
      [] Route(msg) = "text" -> TextChordText(msg, csOk)
      [] OTHER               -> None

---------------------------------------------------------------------------
(* Ticks and offsets *)

\* a tick counter that the early continue leaves alone
NextTickAfterSkip(ticks, msg) ==
    IF EmptyKeyContinue(msg) THEN ticks ELSE ticks + msg.time

\* line 64: absolute_time_ticks += msg.time
NextTick(ticks, msg) == ticks + msg.time

Abs(x) == IF x < 0 THEN -x ELSE x

RECURSIVE GCD(_, _)
GCD(a, b) == IF b = 0 THEN a ELSE GCD(b, a % b)

\* n / d for d # 0, as a rational in lowest terms with a positive denominator
Frac(n, d) ==
    LET g == GCD(Abs(n), Abs(d))
        s == IF d < 0 THEN -1 ELSE 1
    IN  <<(s * n) \div g, (s * d) \div g>>

\* the chord file's own resolution
ChordFileResolution == mf_ticks_per_beat

\* line 126: the divisor of the offset is the ticks_per_quarter argument
TimingResolution == ticks_per_quarter

\* a chord list built newest first
PrependChord(list, cs) == <<cs>> \o list

\* line 127: chords.append(cs)
AppendChord(list, cs) == Append(list, cs)

---------------------------------------------------------------------------
(* Streams and elements of music21 *)

\* an element of a stream: a time signature, a key signature, a chord symbol
\* or a note/rest; id tells apart the objects of one kind
Element(kind, id, name) == [kind |-> kind, id |-> id, name |-> name]

\* an insert that replaces whatever already sits at the offset
InsertReplacing(stream, offset, el) ==
    Append(SelectSeq(stream, LAMBDA e : e.offset # offset),
           [offset |-> offset, el |-> el])

\* Stream.insert(offset, el): the element is added, nothing is removed
Insert(stream, offset, el) == Append(stream, [offset |-> offset, el |-> el])

\* lines 178-179: for cs in extracted_chords: output_part.insert(cs.offset, cs)
RECURSIVE InsertChords(_, _)
InsertChords(stream, list) ==
    IF list = <<>> THEN stream
    ELSE InsertChords(
             Insert(stream, Head(list).offset,
                    Element("chord", Head(list).id, Head(list).name)),
             Tail(list))

\* lines 180-181: for el in melody_part.notesAndRests: output_part.insert(el.offset, el)
RECURSIVE InsertNotes(_, _, _)
InsertNotes(stream, notes, i) ==
    IF i > Len(notes) THEN stream
    ELSE InsertNotes(Insert(stream, notes[i], Element("note", i, "")), notes, i + 1)

\* lines 164-181: the output part built from metadata, chords and melody
MergedPart(ts, ks, chordList, notes) ==
    LET s1 == IF ts THEN Insert(<<>>, <<0, 1>>, Element("ts", 1, "")) ELSE <<>>
        s2 == IF ks THEN Insert(s1, <<0, 1>>, Element("ks", 1, "")) ELSE s1
    IN  InsertNotes(InsertChords(s2, chordList), notes, 1)

---------------------------------------------------------------------------
(* Exit statuses and exception handling of main *)

SUCCESS_EXIT == 0            \* sys.exit(0), lines 251 and 264
MELODY_PARSE_EXIT == 1       \* sys.exit(1), line 147
NO_CHANNEL_EXIT == 1         \* sys.exit(1), line 154
CHECK_FAILURE_EXIT == 1      \* sys.exit(1), lines 198 and 209
USAGE_EXIT == 1              \* sys.exit(1), line 272

\* a handler that ends the run with the success status
UnexpectedExitAsSuccess == SUCCESS_EXIT

\* sys.exit(1), line 263
UNEXPECTED_EXIT == 1

\* a bare "except:" also intercepts SystemExit
CatchesBaseException(exc) == exc \in {"Exception", "SystemExit"}

\* line 261: "except Exception" does not intercept SystemExit
Catches(exc) == exc = "Exception"

---------------------------------------------------------------------------
(* Inputs *)

ARGS == {"check", "generate", "partial", "none"}

\* ticks_per_beat of the melody file and of the chord file in generation mode
MelodyTpbs == {480, 960}
ChordTpbs == {480, 960}
\* ticks_per_beat of the file given to --check-chords; mido reads the
\* division field as a signed 16-bit number
CheckTpbs == {0 - 480, 0, 480}

Part(hasInstrument, midiChannel) ==
    [instrument |-> hasInstrument, midiChannel |-> midiChannel]

\* the parts instrument.partitionByInstrument returns
PartLists ==
    { <<>>,
      << Part(FALSE, 1) >>,
      << Part(TRUE, 2) >>,
      << Part(TRUE, 2), Part(TRUE, 1) >>,
      << Part(TRUE, 1), Part(TRUE, 1) >> }

\* line 151: the first part with an instrument on MIDI channel 1; 0 models None
FirstChannel1Part(parts) ==
    LET hits == { i \in DOMAIN parts : parts[i].instrument /\ parts[i].midiChannel = 1 }
    IN  IF hits = {} THEN 0 ELSE CHOOSE i \in hits : \A j \in hits : i <= j

\* offsets of the melody part's notes and rests, in sequence order
NoteSeqs ==
    { <<>>,
      << <<0, 1>> >>,
      << <<0, 1>>, <<0, 1>>, <<2, 1>> >>,
      << <<1, 2>>, <<2, 1>> >> }

\* delta times of the streams scanned under Spec
Deltas == {0, 480}

\* the messages of the streams scanned under Spec
Msgs ==
    UNION { { Msg("sequencer_specific", d, <<67, 123, 1, 35, 19, 127>>, "", ""),
              Msg("sequencer_specific", d, <<67, 123, 1, 127, 127>>, "", ""),
              Msg("text", d, <<>>, "Gm7 riff", ""),
              Msg("track_name", d, <<>>, "", "C") } : d \in Deltas }

\* delta times of the streams scanned under SpecTicks
TickDeltas == {0, 5, 10}

\* the messages of the streams scanned under SpecTicks
TickMsgs ==
    UNION { { Msg("sequencer_specific", d, <<67, 123, 1, 50, 0>>, "", ""),
              Msg("sequencer_specific", d, <<67, 123, 1, 127>>, "", ""),
              Msg("marker", d, <<>>, "intro", ""),
              Msg("note_on", d, <<>>, "", "") } : d \in TickDeltas }

\* s with byte b inserted after its first i bytes
InsertAt(s, i, b) == SubSeq(s, 1, i) \o <<b>> \o SubSeq(s, i + 1, Len(s))

\* every way to put exactly n separators into key k
RECURSIVE WithSeparators(_, _)
WithSeparators(k, n) ==
    IF n = 0 THEN {k}
    ELSE UNION { { InsertAt(p, i, SEPARATOR) : i \in 0..Len(p) } :
                 p \in WithSeparators(k, n - 1) }

\* the payloads that spell a key of the dict, with up to MaxSep separators
KeyPayloads ==
    UNION { WithSeparators(k, n) : k \in xf_chord_keys, n \in 0..MaxSep }

\* bytes of the free payloads: key bytes, the separator and a byte of no key
PayloadBytes == {0, 1, 19, 35, 39, SEPARATOR}

RECURSIVE SeqsUpTo(_, _)
SeqsUpTo(S, n) ==
    IF n = 0 THEN {<<>>}
    ELSE LET shorter == SeqsUpTo(S, n - 1)
         IN  shorter \cup { Append(s, b) : s \in shorter, b \in S }

\* every payload of at most MaxPayload bytes over PayloadBytes
FreePayloads == SeqsUpTo(PayloadBytes, MaxPayload)

\* delta times of the single messages decoded under SpecMessage
MessageDeltas == {0, 10}

\* the single messages decoded under SpecMessage
AllMsgs ==
    UNION { { Msg("sequencer_specific", d, XF_META_HEADER \o <<XF_CHORD_ID>> \o p, "", "") :
                  p \in KeyPayloads \cup FreePayloads }
            \cup { Msg("sequencer_specific", d, XF_META_HEADER \o <<id>> \o p, "", "") :
                  id \in {XF_LYRIC_ID, XF_RUBY_ID}, p \in {<<>>, <<35, 19>>, <<67, 127>>} }
            \cup { Msg("sequencer_specific", d, p, "", "") :
                  p \in { <<>>, <<67>>, <<67, 123>>, <<67, 0, 1, 35, 19>>,
                          <<0, 123, 1, 35, 19>> } }
            \cup { Msg(t, d, <<>>, x, "") :
                  t \in {"text", "lyrics", "marker"},
                  x \in {"Gm7 riff", " C ", "   ", "intro"} }
            \cup { Msg("track_name", d, <<>>, "", x) : x \in {"C", "Gm7 riff"} }
            \cup { Msg("note_on", d, <<>>, "", "") }
          : d \in MessageDeltas }

---------------------------------------------------------------------------
(* The program *)

\* the state every run starts from, but for pc, args and the resolutions
Blank ==
    /\ exit_code = 0 - 1
    /\ exit_reason = "running"
    /\ raised = "none"
    /\ exit_arg = 0
    /\ caught = FALSE
    /\ phases = <<>>
    /\ melody_parsed = FALSE
    /\ melody_part = 0
    /\ chord_open_failed = FALSE
    /\ warned = FALSE
    /\ absolute_time_ticks = 0
    /\ chords = <<>>
    /\ scanned = <<>>
    /\ extracted_chords = <<>>
    /\ output_part = <<>>
    /\ melody_in = [ts |-> FALSE, ks |-> FALSE, notes |-> <<>>]
    /\ dir_created = FALSE
    /\ written = FALSE

\* main is entered with some command line
Init ==
    /\ pc = "main"
    /\ args \in ARGS
    /\ ticks_per_quarter = 0
    /\ mf_ticks_per_beat = 0
    /\ Blank

\* sys.exit(code) where no handler of main is in the way
Exit(code, reason) ==
    /\ pc' = "exited"
    /\ exit_code' = code
    /\ exit_reason' = reason

\* sys.exit(code) inside create_lead_sheet: SystemExit unwinds to main's try
RaiseSystemExit(code, reason) ==
    /\ pc' = "unwind"
    /\ raised' = "SystemExit"
    /\ exit_arg' = code
    /\ exit_reason' = reason

\* lines 246-272: main dispatches on the arguments
Main ==
    /\ pc = "main"
    /\ IF args = "check"
       THEN pc' = "check_chords_in_file" /\ UNCHANGED <<exit_code, exit_reason>>
       ELSE IF args = "generate"
       THEN pc' = "create_lead_sheet" /\ UNCHANGED <<exit_code, exit_reason>>
       ELSE Exit(USAGE_EXIT, "usage")
    /\ UNCHANGED <<args, raised, exit_arg, caught, phases, melody_parsed,
                   ticks_per_quarter, melody_part, chord_open_failed,
                   mf_ticks_per_beat, warned, absolute_time_ticks, chords, scanned,
                   extracted_chords, output_part, melody_in, dir_created, written>>

\* lines 196-198: the file given to --check-chords must exist
CheckExists ==
    /\ pc = "check_chords_in_file"
    /\ \E exists \in BOOLEAN :
          IF exists
          THEN pc' = "check_open" /\ UNCHANGED <<exit_code, exit_reason>>
          ELSE Exit(CHECK_FAILURE_EXIT, "file_not_found")
    /\ UNCHANGED <<args, raised, exit_arg, caught, phases, melody_parsed,
                   ticks_per_quarter, melody_part, chord_open_failed,
                   mf_ticks_per_beat, warned, absolute_time_ticks, chords, scanned,
                   extracted_chords, output_part, melody_in, dir_created, written>>

\* lines 199-202 and 207-209: check mode opens the file for its own resolution
CheckOpen ==
    /\ pc = "check_open"
    /\ \E ok \in BOOLEAN, tpb \in CheckTpbs :
          IF ok
          THEN /\ pc' = "open_chord_file"
               /\ ticks_per_quarter' = tpb
               /\ UNCHANGED <<exit_code, exit_reason>>
          ELSE /\ Exit(CHECK_FAILURE_EXIT, "check_error")
               /\ UNCHANGED ticks_per_quarter
    /\ UNCHANGED <<args, raised, exit_arg, caught, phases, melody_parsed,
                   melody_part, chord_open_failed,
                   mf_ticks_per_beat, warned, absolute_time_ticks, chords, scanned,
                   extracted_chords, output_part, melody_in, dir_created, written>>

\* lines 139-147: parse the melody file, take its resolution
ParseMelody ==
    /\ pc = "create_lead_sheet"
    /\ phases' = Append(phases, "melody_parse")
    /\ \E ok \in BOOLEAN, tpb \in MelodyTpbs :
          IF ok
          THEN /\ pc' = "select_part"
               /\ melody_parsed' = TRUE
               /\ ticks_per_quarter' = tpb
               /\ UNCHANGED <<raised, exit_arg, exit_reason>>
          ELSE /\ RaiseSystemExit(MELODY_PARSE_EXIT, "melody_parse")
               /\ UNCHANGED <<melody_parsed, ticks_per_quarter>>
    /\ UNCHANGED <<args, exit_code, caught, melody_part, chord_open_failed,
                   mf_ticks_per_beat, warned, absolute_time_ticks, chords, scanned,
                   extracted_chords, output_part, melody_in, dir_created, written>>

\* lines 150-155: pick the part on MIDI channel 1 or leave
SelectPart ==
    /\ pc = "select_part"
    /\ phases' = Append(phases, "select_part")
    /\ \E parts \in PartLists :
          /\ melody_part' = FirstChannel1Part(parts)
          /\ IF FirstChannel1Part(parts) = 0
             THEN RaiseSystemExit(NO_CHANNEL_EXIT, "no_channel")
             ELSE pc' = "open_chord_file" /\ UNCHANGED <<raised, exit_arg, exit_reason>>
    /\ UNCHANGED <<args, exit_code, caught, melody_parsed, ticks_per_quarter,
                   chord_open_failed,
                   mf_ticks_per_beat, warned, absolute_time_ticks, chords, scanned,
                   extracted_chords, output_part, melody_in, dir_created, written>>

\* where _parse_chords_from_midi returns to
AfterParse == IF args = "check" THEN "check_report" ELSE "merge"

\* lines 50-60: open the chord file; a failure is caught and returns []
\* (check mode opened the same file a moment ago, so it opens again)
OpenChordFile ==
    /\ pc = "open_chord_file"
    /\ phases' = IF args = "generate" THEN Append(phases, "chord_extraction") ELSE phases
    /\ \E ok \in BOOLEAN, tpb \in ChordTpbs \cup CheckTpbs :
          /\ args = "check" => ok /\ tpb = ticks_per_quarter
          /\ args = "generate" => tpb \in ChordTpbs
          /\ IF ok
             THEN /\ pc' = "scan"
                  /\ mf_ticks_per_beat' = tpb
                  /\ warned' = (tpb # ticks_per_quarter)
                  /\ UNCHANGED <<chord_open_failed, extracted_chords>>
             ELSE /\ pc' = AfterParse
                  /\ chord_open_failed' = TRUE
                  /\ extracted_chords' = <<>>
                  /\ UNCHANGED <<mf_ticks_per_beat, warned>>
    /\ absolute_time_ticks' = 0
    /\ chords' = <<>>
    /\ scanned' = <<>>
    /\ UNCHANGED <<args, exit_code, exit_reason, raised, exit_arg, caught,
                   melody_parsed, ticks_per_quarter, melody_part,
                   output_part, melody_in, dir_created, written>>

\* lines 62-129: one turn of the loop on message msg; csOk says whether
\* harmony.ChordSymbol accepts the candidate name of this message
ScanMsg(msg, csOk) ==
    /\ pc = "scan"
    /\ LET tick == NextTick(absolute_time_ticks, msg)
           name == current_chord_text(msg, csOk)
           made == name # None /\ csOk /\ TimingResolution # 0
       IN  /\ absolute_time_ticks' = tick
           /\ chords' =
                 IF made
                 THEN AppendChord(chords,
                          [name |-> name,
                           offset |-> Frac(tick, TimingResolution),
                           id |-> Len(scanned) + 1])
                 ELSE chords
           /\ scanned' = Append(scanned,
                 [msg |-> msg, tick |-> tick, route |-> Route(msg),
                  name |-> name, appended |-> made])
    /\ UNCHANGED <<pc, args, exit_code, exit_reason, raised, exit_arg, caught, phases,
                   melody_parsed, ticks_per_quarter, melody_part, chord_open_failed,
                   mf_ticks_per_beat, warned,
                   extracted_chords, output_part, melody_in, dir_created, written>>

\* the loop under Spec: the stream holds at most MaxMsgs messages
Scan ==
    \E msg \in Msgs, csOk \in BOOLEAN :
        Len(scanned) < MaxMsgs /\ ScanMsg(msg, csOk)

\* lines 131-132: the stream is exhausted, the list is returned and the
\* locals of _parse_chords_from_midi are gone
ScanDone ==
    /\ pc = "scan"
    /\ pc' = AfterParse
    /\ extracted_chords' = chords
    /\ absolute_time_ticks' = 0
    /\ chords' = <<>>
    /\ scanned' = <<>>
    /\ UNCHANGED <<args, exit_code, exit_reason, raised, exit_arg, caught, phases,
                   melody_parsed, ticks_per_quarter, melody_part, chord_open_failed,
                   mf_ticks_per_beat, warned,
                   output_part, melody_in, dir_created, written>>

\* lines 203-206 and 251: check mode reports the count and ends
CheckReport ==
    /\ pc = "check_report"
    /\ Exit(SUCCESS_EXIT, "check_done")
    /\ UNCHANGED <<args, raised, exit_arg, caught, phases, melody_parsed,
                   ticks_per_quarter, melody_part, chord_open_failed,
                   mf_ticks_per_beat, warned, absolute_time_ticks, chords, scanned,
                   extracted_chords, output_part, melody_in, dir_created, written>>

\* lines 163-181: read the metadata and the notes of the melody part and
\* build the output part
Merge ==
    /\ pc = "merge"
    /\ phases' = Append(phases, "merge")
    /\ \E ts \in BOOLEAN, ks \in BOOLEAN, notes \in NoteSeqs :
          /\ melody_in' = [ts |-> ts, ks |-> ks, notes |-> notes]
          /\ output_part' = MergedPart(ts, ks, extracted_chords, notes)
    /\ pc' = "write"
    /\ UNCHANGED <<args, exit_code, exit_reason, raised, exit_arg, caught,
                   melody_parsed, ticks_per_quarter, melody_part, chord_open_failed,
                   mf_ticks_per_beat, warned, absolute_time_ticks, chords, scanned,
                   extracted_chords, dir_created, written>>

\* lines 184-187, 218 and 264: make the directory, write the file, leave with
\* success; an error of either call is an Exception on its way to main
Write ==
    /\ pc = "write"
    /\ phases' = Append(phases, "write")
    /\ \E mkdir_ok \in BOOLEAN, write_ok \in BOOLEAN :
          /\ dir_created' = mkdir_ok
          /\ written' = (mkdir_ok /\ write_ok)
          /\ IF mkdir_ok /\ write_ok
             THEN Exit(SUCCESS_EXIT, "success") /\ UNCHANGED <<raised, exit_arg>>
             ELSE /\ pc' = "unwind"
                  /\ raised' = "Exception"
                  /\ UNCHANGED <<exit_code, exit_reason, exit_arg>>
    /\ UNCHANGED <<args, caught,
                   melody_parsed, ticks_per_quarter, melody_part, chord_open_failed,
                   mf_ticks_per_beat, warned, absolute_time_ticks, chords, scanned,
                   extracted_chords, output_part, melody_in>>

\* lines 261-263: main's handler intercepts the exception and exits
MainExcept ==
    /\ pc = "unwind"
    /\ Catches(raised)
    /\ caught' = TRUE
    /\ Exit(UNEXPECTED_EXIT, "unexpected")
    /\ UNCHANGED <<args, raised, exit_arg, phases, melody_parsed,
                   ticks_per_quarter, melody_part, chord_open_failed,
                   mf_ticks_per_beat, warned, absolute_time_ticks, chords, scanned,
                   extracted_chords, output_part, melody_in, dir_created, written>>

\* the exception passes main's handler: the interpreter ends the process with
\* the argument of sys.exit
Propagate ==
    /\ pc = "unwind"
    /\ ~Catches(raised)
    /\ pc' = "exited"
    /\ exit_code' = exit_arg
    /\ UNCHANGED <<args, exit_reason, raised, exit_arg, caught, phases, melody_parsed,
                   ticks_per_quarter, melody_part, chord_open_failed,
                   mf_ticks_per_beat, warned, absolute_time_ticks, chords, scanned,
                   extracted_chords, output_part, melody_in, dir_created, written>>

Next ==
    \/ Main
    \/ CheckExists
    \/ CheckOpen
    \/ ParseMelody
    \/ SelectPart
    \/ OpenChordFile
    \/ Scan
    \/ ScanDone
    \/ CheckReport
    \/ Merge
    \/ Write
    \/ MainExcept
    \/ Propagate

Spec == Init /\ [][Next]_vars

---------------------------------------------------------------------------
(* The scan on its own: _parse_chords_from_midi as check mode calls it,    *)
(* right after the file is opened                                          *)

InitScan ==
    /\ pc = "scan"
    /\ args = "check"
    /\ ticks_per_quarter \in CheckTpbs
    /\ mf_ticks_per_beat = ticks_per_quarter
    /\ Blank

\* the loop under SpecMessage: one message out of AllMsgs
ScanOne ==
    \E msg \in AllMsgs, csOk \in BOOLEAN :
        scanned = <<>> /\ ScanMsg(msg, csOk)

NextMessage ==
    \/ ScanOne
    \/ ScanDone
    \/ CheckReport

SpecMessage == InitScan /\ [][NextMessage]_vars

\* the loop under SpecTicks: at most MaxTickMsgs messages out of TickMsgs
ScanTicks ==
    \E msg \in TickMsgs, csOk \in BOOLEAN :
        Len(scanned) < MaxTickMsgs /\ ScanMsg(msg, csOk)

NextTicks ==
    \/ ScanTicks
    \/ ScanDone
    \/ CheckReport

\* the scan of a file whose resolution is 480 ticks per quarter note
InitTicks == InitScan /\ ticks_per_quarter = 480

SpecTicks == InitTicks /\ [][NextTicks]_vars

---------------------------------------------------------------------------
(* Claims *)

\* the message of a scan entry is an XF chord event: a sequencer_specific
\* message whose data starts with 0x43 0x7B 0x01
IsXFChordEntry(e) ==
    /\ e.msg.type = "sequencer_specific"
    /\ Len(e.msg.data) >= 3
    /\ SubSeq(e.msg.data, 1, 3) = <<67, 123, 1>>

\* the bytes after header and id of an entry's message, without the 0x7F bytes
StrippedPayload(e) ==
    SelectSeq(SubSeq(e.msg.data, 4, Len(e.msg.data)), LAMBDA b : b # 127)

\* C1: an XF chord event whose payload, once the 0x7F bytes are removed, equals
\* key k of xf_chord_map resolves to exactly xf_chord_map[k]; the match is on the
\* whole tuple, so (0x23, 0x13) and (0x23, 0x13, 0x27) resolve to their own entries.
C1_ExactLookup ==
    \A n \in DOMAIN scanned :
        IsXFChordEntry(scanned[n]) =>
            /\ \A i \in DOMAIN xf_chord_map :
                  StrippedPayload(scanned[n]) = xf_chord_map[i][1]
                      => scanned[n].name = xf_chord_map[i][2]
            /\ StrippedPayload(scanned[n]) = <<35, 19>>
                  => scanned[n].name = "D#add9"
            /\ StrippedPayload(scanned[n]) = <<35, 19, 39>>
                  => scanned[n].name = "D#add9/F#"

\* a 3-byte key that extends a 2-byte key, sent with separators, was resolved
C1_Witness ==
    \E n \in DOMAIN scanned :
        /\ IsXFChordEntry(scanned[n])
        /\ scanned[n].msg.data = <<67, 123, 1, 35, 19, 127, 39, 127>>
        /\ scanned[n].name = "D#add9/F#"

\* C2: an XF chord event whose payload is empty, is only 0x7F bytes, or does not
\* strip to a key of xf_chord_map appends no chord and raises nothing; the loop
\* goes on to the next message.
C2_UnknownKeyNoChord ==
    \A n \in DOMAIN scanned :
        (IsXFChordEntry(scanned[n])
         /\ \A i \in DOMAIN xf_chord_map :
                StrippedPayload(scanned[n]) # xf_chord_map[i][1])
        => /\ scanned[n].name = None
           /\ ~scanned[n].appended
           /\ \A c \in DOMAIN chords : chords[c].id # n
           /\ raised = "none"
           /\ pc = "scan"
           /\ exit_code = 0 - 1

\* an unknown key that shares its first byte with known keys, sent with a separator
C2_Witness ==
    \E n \in DOMAIN scanned :
        /\ scanned[n].msg.data = <<67, 123, 1, 35, 127, 1>>
        /\ ~scanned[n].appended
        /\ pc = "scan"

RECURSIVE SumOfDeltas(_, _)
SumOfDeltas(entries, i) ==
    IF i = 0 THEN 0 ELSE SumOfDeltas(entries, i - 1) + entries[i].msg.time

\* C3: the tick attached to the i-th message is the sum of the delta times of
\* messages 1..i, whatever the message is and whether or not it is skipped; the
\* ticks never decrease; deltas 0, 10, 0, 5 give ticks 0, 10, 10, 15.
C3_TickIsSumOfDeltas ==
    pc = "scan" =>
        /\ \A i \in DOMAIN scanned : scanned[i].tick = SumOfDeltas(scanned, i)
        /\ absolute_time_ticks = SumOfDeltas(scanned, Len(scanned))
        /\ \A i, j \in DOMAIN scanned : i <= j => scanned[i].tick <= scanned[j].tick
        /\ (/\ Len(scanned) >= 4
            /\ scanned[1].msg.time = 0 /\ scanned[2].msg.time = 10
            /\ scanned[3].msg.time = 0 /\ scanned[4].msg.time = 5)
           => (/\ scanned[1].tick = 0  /\ scanned[2].tick = 10
               /\ scanned[3].tick = 10 /\ scanned[4].tick = 15)

\* deltas 0, 10, 0, 5 were scanned, the second message being an XF chord event
\* with an empty key (the early continue) and the fourth a plain note
C3_Witness ==
    /\ Len(scanned) = 4
    /\ scanned[1].msg.time = 0 /\ scanned[2].msg.time = 10
    /\ scanned[3].msg.time = 0 /\ scanned[4].msg.time = 5
    /\ scanned[2].msg.data = <<67, 123, 1, 127>>
    /\ scanned[3].appended
    /\ scanned[4].msg.type = "note_on"
    /\ absolute_time_ticks = 15

\* C4: the offset of every chord is the tick of its message divided by the
\* ticks_per_quarter argument, not by the chord file's ticks_per_beat; a
\* difference of the two only prints the warning; tick 960 at 480 gives offset 2.
C4_OffsetByGoverningResolution ==
    pc = "scan" =>
        /\ \A c \in DOMAIN chords :
              /\ chords[c].id \in DOMAIN scanned
              /\ chords[c].offset[2] > 0
              /\ chords[c].offset[1] * ticks_per_quarter
                     = scanned[chords[c].id].tick * chords[c].offset[2]
              /\ chords[c].name = scanned[chords[c].id].name
              /\ (scanned[chords[c].id].tick = 960 /\ ticks_per_quarter = 480)
                     => chords[c].offset = <<2, 1>>
        /\ warned = (mf_ticks_per_beat # ticks_per_quarter)
        /\ \A n \in DOMAIN scanned :
              scanned[n].appended
                  => \E c \in DOMAIN chords : chords[c].id = n

\* generation mode, the chord file declares 960 and the melody file 480: a
\* chord at tick 960 has offset 2
C4_Witness ==
    /\ pc = "scan"
    /\ args = "generate"
    /\ ticks_per_quarter = 480
    /\ mf_ticks_per_beat = 960
    /\ warned
    /\ \E c \in DOMAIN chords :
          scanned[chords[c].id].tick = 960 /\ chords[c].offset = <<2, 1>>

\* the outcomes of a finished generation run
GenerationDone == pc = "exited" /\ args = "generate"
MelodyFailure == ~melody_parsed \/ melody_part = 0

\* C5 as stated: the exit code of an unexpected failure differs from the one of
\* the melody-parse and missing-channel failures, and both differ from success.
C5_DistinctFailureCodes ==
    GenerationDone =>
        /\ written => exit_code = SUCCESS_EXIT
        /\ MelodyFailure =>
              exit_code \in {MELODY_PARSE_EXIT, NO_CHANNEL_EXIT} /\ exit_code # SUCCESS_EXIT
        /\ caught =>
              /\ exit_code # SUCCESS_EXIT
              /\ exit_code # MELODY_PARSE_EXIT
              /\ exit_code # NO_CHANNEL_EXIT

\* C5 amended: generation exits with 0 when it completes and with the same
\* failure code 1 when the melody cannot be parsed, when no part is on channel 1
\* and on any other unexpected failure; only completion exits with 0.
C5_ExitCodes ==
    GenerationDone =>
        /\ written => exit_code = 0
        /\ MelodyFailure => exit_code = 1
        /\ caught => exit_code = 1
        /\ exit_code = 0 => written /\ ~caught /\ ~MelodyFailure

\* a run that ended in main's handler after the write failed
C5_Witness ==
    /\ GenerationDone
    /\ caught
    /\ ~MelodyFailure
    /\ ~written
    /\ exit_code = 1

\* C6: a chord file that cannot be opened or parsed aborts generation with a
\* failure exit and no output file.
C6_ChordFileFailureFatal ==
    chord_open_failed =>
        /\ ~written
        /\ pc = "exited" => exit_code # SUCCESS_EXIT

MetaCount == (IF melody_in.ts THEN 1 ELSE 0) + (IF melody_in.ks THEN 1 ELSE 0)

\* C8: the output part holds the time signature and the key signature at
\* offset 0 when present, then every extracted chord once at its offset in list
\* order, then every note or rest once at its offset in sequence order, and
\* nothing else; elements that share an offset are all kept.
C8_MergeKeepsEverything ==
    ("merge" \in { phases[i] : i \in DOMAIN phases }) =>
        /\ Len(output_part) = MetaCount + Len(extracted_chords) + Len(melody_in.notes)
        /\ melody_in.ts =>
              output_part[1] = [offset |-> <<0, 1>>, el |-> Element("ts", 1, "")]
        /\ melody_in.ks =>
              output_part[MetaCount] = [offset |-> <<0, 1>>, el |-> Element("ks", 1, "")]
        /\ \A i \in DOMAIN extracted_chords :
              output_part[MetaCount + i] =
                  [offset |-> extracted_chords[i].offset,
                   el |-> Element("chord", extracted_chords[i].id,
                                  extracted_chords[i].name)]
        /\ \A j \in DOMAIN melody_in.notes :
              output_part[MetaCount + Len(extracted_chords) + j] =
                  [offset |-> melody_in.notes[j], el |-> Element("note", j, "")]

\* a merge with both signatures, two chords at offset 0 and two notes at offset 0
C8_Witness ==
    /\ pc = "write"
    /\ melody_in.ts /\ melody_in.ks
    /\ Len(extracted_chords) >= 2
    /\ extracted_chords[1].offset = <<0, 1>>
    /\ extracted_chords[2].offset = <<0, 1>>
    /\ Len(melody_in.notes) = 3
    /\ melody_in.notes[1] = <<0, 1>> /\ melody_in.notes[2] = <<0, 1>>
    /\ Len(output_part) = 2 + Len(extracted_chords) + 3

\* C9: after any prefix of the stream the chord list is in encounter order
\* and, for a positive ticks_per_quarter, its offsets never decrease; chords of
\* the same tick keep their encounter order.
C9_ChordsInEncounterOrder ==
    /\ \A i, j \in DOMAIN chords :
          i < j =>
             /\ chords[i].id < chords[j].id
             /\ ticks_per_quarter > 0 =>
                   chords[i].offset[1] * chords[j].offset[2]
                       <= chords[j].offset[1] * chords[i].offset[2]
    /\ \A i, j \in DOMAIN extracted_chords :
          i < j =>
             /\ extracted_chords[i].id < extracted_chords[j].id
             /\ ticks_per_quarter > 0 =>
                   extracted_chords[i].offset[1] * extracted_chords[j].offset[2]
                       <= extracted_chords[j].offset[1] * extracted_chords[i].offset[2]

\* three chords: two found at the same tick, one at a later tick
C9_Witness ==
    /\ pc = "scan"
    /\ ticks_per_quarter > 0
    /\ Len(chords) = 3
    /\ chords[1].offset = chords[2].offset
    /\ chords[2].offset # chords[3].offset
    /\ chords[1].id < chords[2].id

\* C10: a sequencer_specific message with the XF header and one more byte goes
\* to the SysEx decoder only, and yields no chord unless its id is the chord id;
\* only text, lyrics and marker messages reach the text recognizer; track_name
\* and every other message yield no chord; the tick advances for all of them.
C10_OneRecognizerPerMessage ==
    \A n \in DOMAIN scanned :
        LET e == scanned[n]
            xf == /\ e.msg.type = "sequencer_specific"
                  /\ Len(e.msg.data) >= 3
                  /\ SubSeq(e.msg.data, 1, 2) = <<67, 123>>
        IN  /\ xf => e.route = "xf"
            /\ (xf /\ e.msg.data[3] # 1) => (e.name = None /\ ~e.appended)
            /\ e.route = "xf" => xf
            /\ e.route = "text" <=> e.msg.type \in {"text", "lyrics", "marker"}
            /\ (e.msg.type = "sequencer_specific" /\ ~xf) => (e.name = None /\ ~e.appended)
            /\ e.msg.type \notin {"sequencer_specific", "text", "lyrics", "marker"}
                  => (e.route = "none" /\ e.name = None /\ ~e.appended)
            /\ e.tick = (IF n = 1 THEN 0 ELSE scanned[n - 1].tick) + e.msg.time
            /\ e.appended => \E c \in DOMAIN chords : chords[c].id = n

\* a track_name message spelling a chord was scanned: no chord, the tick moved
C10_Witness ==
    \E n \in DOMAIN scanned :
        /\ scanned[n].msg.type = "track_name"
        /\ scanned[n].msg.name = "C"
        /\ scanned[n].msg.time = 10
        /\ scanned[n].tick = 10
        /\ ~scanned[n].appended
        /\ chords = <<>>

===========================================================================
